---- MODULE Spec2Model ----
(***************************************************************************)
(* The procedural timeline and request workflow of ProcedeAI               *)
(* (src/pages/2_Smart_Timeline.py) and its login (src/main.py): three      *)
(* worksheets, "Submissions", "Timeline" and "Users", read whole and       *)
(* written back whole by add_submission, process_decision and create_user, *)
(* driven by the forms of several browser sessions and by direct calls.    *)
(*                                                                         *)
(* Every conn.read and every conn.update of a script run is one step, so   *)
(* the runs of different sessions interleave at the worksheets, and a      *)
(* conn.read may raise.                                                    *)
(*                                                                         *)
(* SpecConc  the timeline page, the sessions being logged in already.      *)
(* SpecGate  the sessions start with an empty st.session_state; the main   *)
(*           page (login, logout, sign-up) and the gates of the two pages. *)
(* SpecAuth  SpecGate and the forms of the timeline page.                  *)
(***************************************************************************)
EXTENDS Integers, Sequences, FiniteSets, TLC

VARIABLES subs, timeline, user_role, logged_in, user_name, users, sess, last, runs

vars == <<subs, timeline, user_role, logged_in, user_name, users, sess, last, runs>>

-----------------------------------------------------------------------------
(* Bounds of the model *)

\* Rows of the Submissions worksheet
MaxSubs == 2

\* Script runs and calls that go on to write a worksheet
MaxRuns == 3

\* Rows of the Users worksheet
MaxUsers == 4

-----------------------------------------------------------------------------
(* Values *)

None == "None"

\* A key that st.session_state does not have
Absent == "Absent"

PyTrue == "True"

PyFalse == "False"

NaN == "NaN"

\* Browser sessions, and "api" for direct calls of the functions
Sessions == {"a1", "a2", "p1", "p2", "api"}

SeedRole == [s \in Sessions |->
               CASE s = "a1" -> "arbitrator"
                 [] s = "a2" -> "arbitrator"
                 [] s = "p1" -> "claimant"
                 [] s = "p2" -> "respondent"
                 [] OTHER    -> None]

\* The users the seeded sessions of SpecConc are logged in as
SeedName == [s \in Sessions |->
               CASE s = "a1" -> "Presiding Arbitrator"
                 [] s = "a2" -> "Presiding Arbitrator"
                 [] s = "p1" -> "Counsel for Claimant"
                 [] s = "p2" -> "Counsel for Respondent"
                 [] OTHER    -> ""]

\* The Users worksheet before any run
SeedUsers ==
  << [username |-> "arb", name |-> "Presiding Arbitrator", password |-> "pw1",
      role |-> "arbitrator"],
     [username |-> "clm", name |-> "Counsel for Claimant", password |-> "pw2",
      role |-> "claimant"],
     [username |-> "rsp", name |-> "Counsel for Respondent", password |-> "pw3",
      role |-> "respondent"] >>

\* A Users worksheet that has no role column
LegacyUsers ==
  << [username |-> "arb", name |-> "Presiding Arbitrator", password |-> "pw1"] >>

SeedUserSheets == {SeedUsers, LegacyUsers}

\* The browser sessions that act in SpecAuth, and the caller of create_user
AuthSessions == {"a1", "p1"}

Callers == {"api"}

\* What is typed into the login form
LoginInputs ==
  { [username |-> "arb", password |-> "pw1"],
    [username |-> "clm", password |-> "pw2"],
    [username |-> "obs", password |-> "pw5"],
    [username |-> "clm", password |-> "pw1"],
    [username |-> "arb", password |-> ""] }

\* The same in SpecGate
GateLoginInputs ==
  { [username |-> "arb", password |-> "pw1"],
    [username |-> "obs", password |-> "pw5"],
    [username |-> "clm", password |-> "pw1"],
    [username |-> "arb", password |-> ""] }

\* What is entered in the sign-up form; the role is one of the selectbox
SignupInputs ==
  { [username |-> "clm", name |-> "Second Counsel", password |-> "pw4",
     role |-> "claimant"],
    [username |-> "arb2", name |-> "Co-Arbitrator", password |-> "pw4",
     role |-> "arbitrator"],
    [username |-> "", name |-> "Nobody", password |-> "pw4",
     role |-> "respondent"] }

\* Arguments of direct calls of create_user
CreateUserInputs ==
  { [username |-> "obs", name |-> "Observer", password |-> "pw5",
     role |-> "observer"] }

SeedTimeline ==
  << [event |-> "Statement of Defence", date |-> "2026-01-15",
      owner |-> "Respondent", status |-> "Scheduled"],
     [event |-> "Hearing", date |-> "2026-03-20",
      owner |-> "Tribunal", status |-> "Scheduled"] >>

SeedTimelines == {<< >>, SeedTimeline}

\* A row of a Submissions worksheet that has no decision columns yet
LegacyRow ==
  [party |-> "respondent", doc_type |-> "Extension Request",
   summary |-> "Counsel unavailable", proposed_date |-> "2026-02-12",
   status |-> "Pending", target_event |-> "Hearing"]

SeedSubmissions == {<< >>, <<LegacyRow>>}

\* What a party enters in the request form: the event selected and the date
FormInputs ==
  { [target |-> "Statement of Defence", date |-> [y |-> 2026, m |-> 1, d |-> 29]],
    [target |-> "Statement of Defence", date |-> [y |-> 2026, m |-> 2, d |-> 12]],
    [target |-> "Hearing", date |-> [y |-> 2026, m |-> 1, d |-> 29]] }

\* Arguments of direct calls of add_submission
CallInputs ==
  { [party |-> "claimant", target |-> "Site Visit", date |-> "2026-01-29"],
    [party |-> "respondent", target |-> "Hearing", date |-> "2026-02-12"] }

\* Arguments of direct calls of process_decision
DecideCallInputs ==
  { [index |-> 0, status |-> "Rejected", reason |-> "No good cause",
     event_name |-> "Hearing", new_date_str |-> "2026-02-12"] }

\* What the arbitrator enters in the decision form: the button and the reasoning
DecisionInputs ==
  { [status |-> "Approved", reason |-> "Good cause shown"],
    [status |-> "Rejected", reason |-> "No good cause"],
    [status |-> "Approved", reason |-> ""],
    [status |-> "Rejected", reason |-> ""] }

Summaries == {"Counsel unavailable"}

\* The days of March 2026 on which datetime.now() is read
Days == {9, 10}

\* The form and decision inputs used in SpecAuth
AuthFormInputs ==
  { [target |-> "Statement of Defence", date |-> [y |-> 2026, m |-> 1, d |-> 29]] }

AuthDecisionInputs ==
  { [status |-> "Approved", reason |-> "Good cause shown"],
    [status |-> "Rejected", reason |-> ""] }

AuthDays == {9}

-----------------------------------------------------------------------------
(* Dates: datetime.now().strftime("%Y-%m-%d") and str(date) *)

Pad2(n) == IF n < 10 THEN "0" \o ToString(n) ELSE ToString(n)

strftime(dt) == ToString(dt.y) \o "-" \o Pad2(dt.m) \o "-" \o Pad2(dt.d)

str_date(dt) == strftime(dt)

datetime_now(day) == [y |-> 2026, m |-> 3, d |-> day]

-----------------------------------------------------------------------------
(* The worksheets and the table operations on them *)

\* conn.read(worksheet="Timeline") when it returns; when it raises, the run
\* that called it ends there
get_timeline(ws) == ws

expected_cols ==
  {"party", "doc_type", "summary", "proposed_date", "status", "target_event",
   "decision_reason", "decision_date"}

\* for col in expected_cols: if col not in df.columns: df[col] = ""
FillColumns(r) == [col \in expected_cols |-> IF col \in DOMAIN r THEN r[col] ELSE ""]

\* get_submissions: the worksheet with the missing columns added, or, when
\* conn.read raises (ok is FALSE), the empty table of the except branch
get_submissions(ws, ok) ==
  IF ok /\ Len(ws) > 0
    THEN [i \in DOMAIN ws |-> FillColumns(ws[i])]
    ELSE << >>

NewRow(party, doc_type, summary, proposed_date, target_event) ==
  [party |-> party, doc_type |-> doc_type, summary |-> summary,
   proposed_date |-> proposed_date, status |-> "Pending",
   target_event |-> target_event, decision_reason |-> "", decision_date |-> ""]

NaNRow ==
  [party |-> NaN, doc_type |-> NaN, summary |-> NaN, proposed_date |-> NaN,
   status |-> NaN, target_event |-> NaN, decision_reason |-> NaN,
   decision_date |-> NaN]

\* pd.concat([df, new_row], ignore_index=True): the table written back
add_submission(df, party, doc_type, summary, proposed_date, target_event) ==
  Append(df, NewRow(party, doc_type, summary, proposed_date, target_event))

\* subs_df.at[index, ...] = ... three times; a label the table does not have
\* is added as a new row whose other columns are NaN. index counts from 0.
UpdateLog(df, index, status, reason, date) ==
  IF index + 1 \in DOMAIN df
    THEN [df EXCEPT ![index + 1] =
            [@ EXCEPT !.status = status, !.decision_reason = reason,
                      !.decision_date = date]]
    ELSE Append(df, [NaNRow EXCEPT !.status = status, !.decision_reason = reason,
                                   !.decision_date = date])

\* mask = timeline_df['event'] == event_name; mask.any()
mask_any(tl, event_name) == \E i \in DOMAIN tl : tl[i].event = event_name

\* timeline_df.loc[mask, 'date'] = ...; timeline_df.loc[mask, 'status'] = ...
UpdateTimeline(tl, event_name, new_date_str) ==
  [i \in DOMAIN tl |->
     IF tl[i].event = event_name
       THEN [tl[i] EXCEPT !.date = new_date_str, !.status = "Rescheduled"]
       ELSE tl[i]]

\* pending = subs_df[subs_df['status'] == 'Pending']: the labels kept, from 0
PendingLabels(df) == {i \in 0..(Len(df) - 1) : df[i + 1].status = "Pending"}

IsPending(r) == r.status = "Pending"

list_pending(df) == SelectSeq(df, IsPending)

\* df_timeline['event'].unique()
event_options(tl) == {tl[i].event : i \in DOMAIN tl}

\* The Security Gatekeeper of the timeline page lets the run go on
PastGatekeeper(role) == ~ (role = Absent \/ role = None)

-----------------------------------------------------------------------------
(* The record of the run or call that ended last, and the runs under way *)

\* What a run or call ended with: the message shown, the value returned, the
\* exception raised; sid names the browser session of a run of main.py or of
\* a page gate
NoCall ==
  [op |-> "none", sid |-> "", role |-> None, day |-> 0, username |-> "",
   password |-> "", msg |-> "", ret |-> None, raised |-> None]

\* The inputs of a run or call under way
NoArgs ==
  [op |-> "none", role |-> None, index |-> -1, status |-> "", reason |-> "",
   event_name |-> "", new_date_str |-> "", party |-> "", summary |-> "",
   day |-> 0, username |-> "", name |-> "", password |-> ""]

\* pc: where the run stands; a: its inputs; df, tl: the tables it has read
Idle == [pc |-> "idle", a |-> NoArgs, df |-> << >>, tl |-> << >>]

SetSess(s, pc, a, df, tl) ==
  sess' = [sess EXCEPT ![s] = [pc |-> pc, a |-> a, df |-> df, tl |-> tl]]

\* The end of a run with inputs a: st.success / st.error of a form with
\* message m; a direct call shows nothing
Ended(a, m) ==
  [NoCall EXCEPT !.op = a.op, !.role = a.role, !.day = a.day,
                 !.msg = IF a.op \in {"decision_form", "request_form", "signup"}
                           THEN m ELSE ""]

Init ==
  /\ subs \in SeedSubmissions
  /\ timeline \in SeedTimelines
  /\ user_role = SeedRole
  /\ logged_in = [s \in Sessions |-> IF SeedRole[s] = None THEN PyFalse ELSE PyTrue]
  /\ user_name = SeedName
  /\ users = SeedUsers
  /\ sess = [s \in Sessions |-> Idle]
  /\ last = NoCall
  /\ runs = 0

-----------------------------------------------------------------------------
(* The timeline page: one step per conn.read / conn.update of a run *)

\* The arbitrator view when get_submissions() gives no Pending row, the read
\* having raised or not: no form is shown
ArbInboxZero(s, ok) ==
  /\ sess[s].pc = "idle"
  /\ user_role[s] = "arbitrator"
  /\ PendingLabels(get_submissions(subs, ok)) = {}
  /\ last' = [NoCall EXCEPT !.op = "arbitrator_view", !.role = user_role[s],
                            !.msg = "Inbox Zero. No pending procedural requests."]
  /\ UNCHANGED <<subs, timeline, user_role, logged_in, user_name, users, sess, runs>>

\* The arbitrator view with APPROVE or REJECT pressed and no reasoning entered
DecisionFormNoReason(s, selected_index, status) ==
  /\ sess[s].pc = "idle"
  /\ user_role[s] = "arbitrator"
  /\ selected_index \in PendingLabels(get_submissions(subs, TRUE))
  /\ last' = [NoCall EXCEPT !.op = "decision_form", !.role = user_role[s],
                            !.msg = "Reasoning required for the record."]
  /\ UNCHANGED <<subs, timeline, user_role, logged_in, user_name, users, sess, runs>>

\* The arbitrator view up to the call of process_decision: get_submissions(),
\* the pending filter, the selectbox and the row whose fields become arguments
ArbLoad(s, selected_index, status, decision_reason) ==
  /\ sess[s].pc = "idle"
  /\ user_role[s] = "arbitrator"
  /\ decision_reason # ""
  /\ LET df == get_submissions(subs, TRUE) IN
       /\ selected_index \in PendingLabels(df)
       /\ SetSess(s, "pd_called",
            [NoArgs EXCEPT !.op = "decision_form", !.role = user_role[s],
                           !.index = selected_index, !.status = status,
                           !.reason = decision_reason,
                           !.event_name = df[selected_index + 1].target_event,
                           !.new_date_str = df[selected_index + 1].proposed_date],
            << >>, << >>)
  /\ runs < MaxRuns
  /\ runs' = runs + 1
  /\ UNCHANGED <<subs, timeline, user_role, logged_in, user_name, users, last>>

\* process_decision called with any arguments
DecideCallLoad(s, index, status, reason, event_name, new_date_str) ==
  /\ sess[s].pc = "idle"
  /\ user_role[s] = None
  /\ SetSess(s, "pd_called",
       [NoArgs EXCEPT !.op = "process_decision", !.index = index,
                      !.status = status, !.reason = reason,
                      !.event_name = event_name, !.new_date_str = new_date_str],
       << >>, << >>)
  /\ runs < MaxRuns
  /\ runs' = runs + 1
  /\ UNCHANGED <<subs, timeline, user_role, logged_in, user_name, users, last>>

\* process_decision: subs_df = get_submissions()
PDRead(s, ok) ==
  /\ sess[s].pc = "pd_called"
  /\ SetSess(s, "pd_read", sess[s].a, get_submissions(subs, ok), << >>)
  /\ UNCHANGED <<subs, timeline, user_role, logged_in, user_name, users, last, runs>>

\* process_decision: the three .at assignments and conn.update of Submissions
PDWriteLog(s, day) ==
  /\ sess[s].pc = "pd_read"
  /\ LET a == [sess[s].a EXCEPT !.day = day]
         df == UpdateLog(sess[s].df, a.index, a.status, a.reason,
                         strftime(datetime_now(day))) IN
       /\ Len(df) <= MaxSubs
       /\ subs' = df
       /\ IF a.status = "Approved"
            THEN /\ SetSess(s, "pd_logged", a, << >>, << >>)
                 /\ UNCHANGED last
            ELSE /\ sess' = [sess EXCEPT ![s] = Idle]
                 /\ last' = Ended(a, "Order Issued: Request Denied.")
  /\ UNCHANGED <<timeline, user_role, logged_in, user_name, users, runs>>

\* process_decision: timeline_df = conn.read(...) raises; nothing catches it
PDReadTimelineRaises(s) ==
  /\ sess[s].pc = "pd_logged"
  /\ sess' = [sess EXCEPT ![s] = Idle]
  /\ last' = [Ended(sess[s].a, "") EXCEPT !.raised = "Exception"]
  /\ UNCHANGED <<subs, timeline, user_role, logged_in, user_name, users, runs>>

\* process_decision: timeline_df = conn.read(...) and the mask, no row matching
PDReadTimelineNoMatch(s) ==
  /\ sess[s].pc = "pd_logged"
  /\ ~ mask_any(timeline, sess[s].a.event_name)
  /\ sess' = [sess EXCEPT ![s] = Idle]
  /\ last' = Ended(sess[s].a, "Order Issued: Timeline Updated.")
  /\ UNCHANGED <<subs, timeline, user_role, logged_in, user_name, users, runs>>

\* process_decision: timeline_df = conn.read(...) and the mask, a row matching
PDReadTimeline(s) ==
  /\ sess[s].pc = "pd_logged"
  /\ mask_any(timeline, sess[s].a.event_name)
  /\ SetSess(s, "pd_tlread", sess[s].a, << >>, timeline)
  /\ UNCHANGED <<subs, timeline, user_role, logged_in, user_name, users, last, runs>>

\* process_decision: the two .loc assignments and conn.update of Timeline
PDWriteTimeline(s) ==
  /\ sess[s].pc = "pd_tlread"
  /\ timeline' = UpdateTimeline(sess[s].tl, sess[s].a.event_name,
                                sess[s].a.new_date_str)
  /\ sess' = [sess EXCEPT ![s] = Idle]
  /\ last' = Ended(sess[s].a, "Order Issued: Timeline Updated.")
  /\ UNCHANGED <<subs, user_role, logged_in, user_name, users, runs>>

\* The party view when the selectbox has no option: target is None
RequestFormNoTarget(s) ==
  /\ sess[s].pc = "idle"
  /\ PastGatekeeper(user_role[s])
  /\ user_role[s] # "arbitrator"
  /\ event_options(get_timeline(timeline)) = {}
  /\ last' = [NoCall EXCEPT !.op = "request_form", !.role = user_role[s],
                            !.msg = "Error: Timeline data unavailable."]
  /\ UNCHANGED <<subs, timeline, user_role, logged_in, user_name, users, sess, runs>>

\* The party view up to the call of add_submission: get_timeline() and the form
PartyLoad(s, target, new_date, reason) ==
  /\ sess[s].pc = "idle"
  /\ PastGatekeeper(user_role[s])
  /\ user_role[s] # "arbitrator"
  /\ target \in event_options(get_timeline(timeline))
  /\ SetSess(s, "add_called",
       [NoArgs EXCEPT !.op = "request_form", !.role = user_role[s],
                      !.party = user_role[s], !.summary = reason,
                      !.new_date_str = str_date(new_date), !.event_name = target],
       << >>, << >>)
  /\ runs < MaxRuns
  /\ runs' = runs + 1
  /\ UNCHANGED <<subs, timeline, user_role, logged_in, user_name, users, last>>

\* add_submission called with any arguments
CallLoad(s, party, summary, proposed_date, target_event) ==
  /\ sess[s].pc = "idle"
  /\ user_role[s] = None
  /\ SetSess(s, "add_called",
       [NoArgs EXCEPT !.op = "add_submission", !.party = party,
                      !.summary = summary, !.new_date_str = proposed_date,
                      !.event_name = target_event],
       << >>, << >>)
  /\ runs < MaxRuns
  /\ runs' = runs + 1
  /\ UNCHANGED <<subs, timeline, user_role, logged_in, user_name, users, last>>

\* add_submission: df = get_submissions()
AddRead(s, ok) ==
  /\ sess[s].pc = "add_called"
  /\ Len(subs) < MaxSubs
  /\ SetSess(s, "add_read", sess[s].a, get_submissions(subs, ok), << >>)
  /\ UNCHANGED <<subs, timeline, user_role, logged_in, user_name, users, last, runs>>

\* add_submission: pd.concat and conn.update of Submissions
AddWrite(s) ==
  /\ sess[s].pc = "add_read"
  /\ subs' = add_submission(sess[s].df, sess[s].a.party, "Extension Request",
                            sess[s].a.summary, sess[s].a.new_date_str,
                            sess[s].a.event_name)
  /\ sess' = [sess EXCEPT ![s] = Idle]
  /\ last' = Ended(sess[s].a, "Application filed.")
  /\ UNCHANGED <<timeline, user_role, logged_in, user_name, users, runs>>

NextConc ==
  \/ \E s \in Sessions, ok \in BOOLEAN : ArbInboxZero(s, ok)
  \/ \E s \in Sessions, i \in 0..(MaxSubs - 1), d \in DecisionInputs :
       \/ d.reason = "" /\ DecisionFormNoReason(s, i, d.status)
       \/ ArbLoad(s, i, d.status, d.reason)
  \/ \E s \in Sessions, c \in DecideCallInputs :
       DecideCallLoad(s, c.index, c.status, c.reason, c.event_name, c.new_date_str)
  \/ \E s \in Sessions, ok \in BOOLEAN : PDRead(s, ok)
  \/ \E s \in Sessions, day \in Days : PDWriteLog(s, day)
  \/ \E s \in Sessions : PDReadTimelineRaises(s)
  \/ \E s \in Sessions : PDReadTimelineNoMatch(s)
  \/ \E s \in Sessions : PDReadTimeline(s)
  \/ \E s \in Sessions : PDWriteTimeline(s)
  \/ \E s \in Sessions : RequestFormNoTarget(s)
  \/ \E s \in Sessions, f \in FormInputs, sm \in Summaries :
       PartyLoad(s, f.target, f.date, sm)
  \/ \E s \in Sessions, c \in CallInputs, sm \in Summaries :
       CallLoad(s, c.party, sm, c.date, c.target)
  \/ \E s \in Sessions, ok \in BOOLEAN : AddRead(s, ok)
  \/ \E s \in Sessions : AddWrite(s)

SpecConc == Init /\ [][NextConc]_vars

-----------------------------------------------------------------------------
(* The Users worksheet and the login of src/main.py *)

user_cols == {"username", "name", "password", "role"}

\* fetch_users: the worksheet; the empty table when conn.read raises (ok is
\* FALSE), when the worksheet has no rows and when it lacks a column
fetch_users(ws, ok) ==
  IF ~ ok THEN << >>
  ELSE IF Len(ws) = 0 \/ ~ (\A i \in DOMAIN ws : user_cols \subseteq DOMAIN ws[i])
         THEN << >>
         ELSE ws

\* create_user: not df.empty and username in df['username'].values
username_taken(df, username) ==
  Len(df) > 0 /\ \E i \in DOMAIN df : df[i].username = username

\* create_user: pd.concat([df, new_user], ignore_index=True)
updated_df(df, username, name, password, role) ==
  Append(df, [username |-> username, name |-> name, password |-> password,
              role |-> role])

\* verify_user: the first row of that username if its password is the one
\* given, as a one-row table; the empty table stands for None
verify_user(ws, username, password, ok) ==
  LET df == fetch_users(ws, ok)
      HasName(r) == r.username = username
      user_row == SelectSeq(df, HasName) IN
  IF Len(df) = 0 THEN << >>
  ELSE IF Len(user_row) > 0 /\ user_row[1].password = password
         THEN <<user_row[1]>>
         ELSE << >>

\* main.py, INITIALIZE SESSION STATE: the keys a session does not have yet
InitKey(v, default) == IF v = Absent THEN default ELSE v

\* A run of the main page with nothing pressed: the keys the session lacks
\* are initialised; a logged-in session is shown the dashboard and its
\* welcome, any other only the title and the two forms
MainPage(s) ==
  /\ sess[s].pc = "idle"
  /\ logged_in' = [logged_in EXCEPT ![s] = InitKey(@, PyFalse)]
  /\ user_role' = [user_role EXCEPT ![s] = InitKey(@, None)]
  /\ user_name' = [user_name EXCEPT ![s] = InitKey(@, "")]
  /\ IF logged_in[s] = PyTrue
       THEN last' = [NoCall EXCEPT !.op = "main_page", !.sid = s,
                       !.role = user_role[s],
                       !.msg = "Welcome back, " \o user_name[s] \o "!"]
       ELSE UNCHANGED last
  /\ UNCHANGED <<subs, timeline, users, sess, runs>>

\* create_user called with any arguments
CreateUserLoad(s, username, name, password, role) ==
  /\ sess[s].pc = "idle"
  /\ SetSess(s, "cu_called",
       [NoArgs EXCEPT !.op = "create_user", !.username = username,
                      !.name = name, !.password = password, !.role = role],
       << >>, << >>)
  /\ runs < MaxRuns
  /\ runs' = runs + 1
  /\ UNCHANGED <<subs, timeline, user_role, logged_in, user_name, users, last>>

\* A run of the main page with "Create Account" pressed in the sign-up form,
\* up to the call of create_user
Signup(s, new_user, new_name, new_pass, new_role) ==
  /\ sess[s].pc = "idle"
  /\ logged_in[s] # PyTrue
  /\ logged_in' = [logged_in EXCEPT ![s] = PyFalse]
  /\ user_role' = [user_role EXCEPT ![s] = InitKey(@, None)]
  /\ user_name' = [user_name EXCEPT ![s] = InitKey(@, "")]
  /\ IF new_user # "" /\ new_pass # ""
       THEN /\ runs < MaxRuns
            /\ runs' = runs + 1
            /\ SetSess(s, "cu_called",
                 [NoArgs EXCEPT !.op = "signup", !.username = new_user,
                                !.name = new_name, !.password = new_pass,
                                !.role = new_role],
                 << >>, << >>)
            /\ UNCHANGED last
       ELSE /\ last' = [NoCall EXCEPT !.op = "signup", !.sid = s,
                                      !.msg = "Please fill in all fields."]
            /\ UNCHANGED <<sess, runs>>
  /\ UNCHANGED <<subs, timeline, users>>

\* create_user: df = fetch_users() and the test of the username
CreateUserRead(s, ok) ==
  /\ sess[s].pc = "cu_called"
  /\ LET df == fetch_users(users, ok) IN
       /\ Len(df) < MaxUsers
       /\ IF username_taken(df, sess[s].a.username)
            THEN /\ sess' = [sess EXCEPT ![s] = Idle]
                 /\ last' = [Ended(sess[s].a, "Username already taken.")
                               EXCEPT !.ret = PyFalse]
            ELSE /\ SetSess(s, "cu_read", sess[s].a, df, << >>)
                 /\ UNCHANGED last
  /\ UNCHANGED <<subs, timeline, user_role, logged_in, user_name, users, runs>>

\* create_user: pd.concat and conn.update of Users
CreateUserWrite(s) ==
  /\ sess[s].pc = "cu_read"
  /\ users' = updated_df(sess[s].df, sess[s].a.username, sess[s].a.name,
                         sess[s].a.password, sess[s].a.role)
  /\ sess' = [sess EXCEPT ![s] = Idle]
  /\ last' = [Ended(sess[s].a, "Account created! Please switch to the Login tab.")
                EXCEPT !.ret = PyTrue]
  /\ UNCHANGED <<subs, timeline, user_role, logged_in, user_name, runs>>

\* A run of the main page with "Enter" pressed in the login form
Login(s, username, password, ok) ==
  /\ sess[s].pc = "idle"
  /\ logged_in[s] # PyTrue
  /\ LET user == IF username = "" \/ password = ""
                   THEN << >>
                   ELSE verify_user(users, username, password, ok) IN
       IF Len(user) > 0
         THEN /\ logged_in' = [logged_in EXCEPT ![s] = PyTrue]
              /\ user_role' = [user_role EXCEPT ![s] = user[1].role]
              /\ user_name' = [user_name EXCEPT ![s] = user[1].name]
              /\ last' = [NoCall EXCEPT !.op = "login", !.sid = s,
                                        !.username = username,
                                        !.password = password,
                                        !.role = user[1].role,
                                        !.msg = "Login Successful!"]
         ELSE /\ logged_in' = [logged_in EXCEPT ![s] = PyFalse]
              /\ user_role' = [user_role EXCEPT ![s] = InitKey(@, None)]
              /\ user_name' = [user_name EXCEPT ![s] = InitKey(@, "")]
              /\ last' = [NoCall EXCEPT !.op = "login", !.sid = s,
                            !.username = username, !.password = password,
                            !.msg = IF username = "" \/ password = ""
                                      THEN "Please enter both username and password."
                                      ELSE "Incorrect username or password"]
  /\ UNCHANGED <<subs, timeline, users, sess, runs>>

\* The Logout button leaving user_role as it is
Logout_KeepsRole(s) ==
  /\ logged_in' = [logged_in EXCEPT ![s] = PyFalse]
  /\ UNCHANGED user_role

\* The values the Logout button assigns
LogoutAssigns(s) ==
  /\ logged_in' = [logged_in EXCEPT ![s] = PyFalse]
  /\ user_role' = [user_role EXCEPT ![s] = None]

\* A run of the main page with "Logout" pressed
Logout(s) ==
  /\ sess[s].pc = "idle"
  /\ logged_in[s] = PyTrue
  /\ LogoutAssigns(s)
  /\ last' = [NoCall EXCEPT !.op = "logout", !.sid = s]
  /\ UNCHANGED <<subs, timeline, user_name, users, sess, runs>>

\* THE BOUNCER of the drafting page lets the run go on
PastBouncer(role) == InitKey(role, None) = "arbitrator"

\* A run of the drafting page up to the end of its gate
DraftingPage(s) ==
  /\ sess[s].pc = "idle"
  /\ user_role' = [user_role EXCEPT ![s] = InitKey(@, None)]
  /\ last' = [NoCall EXCEPT !.op = "drafting_page", !.sid = s,
                !.role = user_role[s],
                !.msg = IF PastBouncer(user_role[s])
                          THEN "ArbOS: PO1 Generator"
                          ELSE "ACCESS DENIED: This tool is restricted to the Tribunal."]
  /\ UNCHANGED <<subs, timeline, logged_in, user_name, users, sess, runs>>

\* A run of the timeline page with no form submitted
TimelinePage(s) ==
  /\ sess[s].pc = "idle"
  /\ last' = [NoCall EXCEPT !.op = "timeline_page", !.sid = s,
                !.role = user_role[s],
                !.msg = IF PastGatekeeper(user_role[s])
                          THEN "Case Management Console"
                          ELSE "ACCESS DENIED: Please log in first."]
  /\ UNCHANGED <<subs, timeline, user_role, logged_in, user_name, users, sess, runs>>

InitAuth ==
  /\ subs = << >>
  /\ timeline = SeedTimeline
  /\ user_role = [s \in Sessions |-> Absent]
  /\ logged_in = [s \in Sessions |-> Absent]
  /\ user_name = [s \in Sessions |-> Absent]
  /\ users \in SeedUserSheets
  /\ sess = [s \in Sessions |-> Idle]
  /\ last = NoCall
  /\ runs = 0

\* The runs of main.py and the gates of the two pages
NextGate ==
  \/ \E s \in Callers, c \in CreateUserInputs :
       CreateUserLoad(s, c.username, c.name, c.password, c.role)
  \/ \E s \in AuthSessions, c \in SignupInputs :
       Signup(s, c.username, c.name, c.password, c.role)
  \/ \E s \in AuthSessions \cup Callers, ok \in BOOLEAN : CreateUserRead(s, ok)
  \/ \E s \in AuthSessions \cup Callers : CreateUserWrite(s)
  \/ \E s \in AuthSessions, c \in GateLoginInputs, ok \in BOOLEAN :
       Login(s, c.username, c.password, ok)
  \/ \E s \in AuthSessions : MainPage(s)
  \/ \E s \in AuthSessions : Logout(s)
  \/ \E s \in AuthSessions : DraftingPage(s)
  \/ \E s \in AuthSessions : TimelinePage(s)

SpecGate == InitAuth /\ [][NextGate]_vars

\* The same with the forms of the timeline page
NextAuth ==
  \/ \E s \in Callers, c \in CreateUserInputs :
       CreateUserLoad(s, c.username, c.name, c.password, c.role)
  \/ \E s \in AuthSessions, c \in SignupInputs :
       Signup(s, c.username, c.name, c.password, c.role)
  \/ \E s \in AuthSessions \cup Callers, ok \in BOOLEAN : CreateUserRead(s, ok)
  \/ \E s \in AuthSessions \cup Callers : CreateUserWrite(s)
  \/ \E s \in AuthSessions, c \in LoginInputs, ok \in BOOLEAN :
       Login(s, c.username, c.password, ok)
  \/ \E s \in AuthSessions : MainPage(s)
  \/ \E s \in AuthSessions : Logout(s)
  \/ \E s \in AuthSessions : DraftingPage(s)
  \/ \E s \in AuthSessions : TimelinePage(s)
  \/ \E s \in AuthSessions, ok \in BOOLEAN : ArbInboxZero(s, ok)
  \/ \E s \in AuthSessions, i \in 0..(MaxSubs - 1), d \in AuthDecisionInputs :
       \/ d.reason = "" /\ DecisionFormNoReason(s, i, d.status)
       \/ ArbLoad(s, i, d.status, d.reason)
  \/ \E s \in AuthSessions, ok \in BOOLEAN : PDRead(s, ok)
  \/ \E s \in AuthSessions, day \in AuthDays : PDWriteLog(s, day)
  \/ \E s \in AuthSessions : PDReadTimelineRaises(s)
  \/ \E s \in AuthSessions : PDReadTimeline(s)
  \/ \E s \in AuthSessions : PDWriteTimeline(s)
  \/ \E s \in AuthSessions, f \in AuthFormInputs, sm \in Summaries :
       PartyLoad(s, f.target, f.date, sm)
  \/ \E s \in AuthSessions, ok \in BOOLEAN : AddRead(s, ok)
  \/ \E s \in AuthSessions : AddWrite(s)

SpecAuth == InitAuth /\ [][NextAuth]_vars

-----------------------------------------------------------------------------
(* Helpers of the properties *)

Decided(r) == r.status \in {"Approved", "Rejected"}

PendingAt(df, index) == index + 1 \in DOMAIN df /\ df[index + 1].status = "Pending"

\* The fields a Request is filed with
SameRequest(r, q) ==
  /\ r.party = q.party
  /\ r.doc_type = q.doc_type
  /\ r.summary = q.summary
  /\ r.proposed_date = q.proposed_date
  /\ r.target_event = q.target_event

\* The Submission Store as a read that returns gives it
Stored(ws) == get_submissions(ws, TRUE)

\* Session s takes the step that writes the Submissions worksheet in process_decision
WritesLogStep(s) == sess[s].pc = "pd_read" /\ sess'[s].pc # "pd_read"

\* Session s takes the step that writes the Timeline worksheet in process_decision
WritesTimelineStep(s) == sess[s].pc = "pd_tlread" /\ sess'[s].pc # "pd_tlread"

\* Session s ends process_decision at the mask that matches no row
NoMatchStep(s) ==
  /\ sess[s].pc = "pd_logged"
  /\ sess'[s].pc = "idle"
  /\ last'.raised # "Exception"

\* Session s takes the step that writes the Submissions worksheet in add_submission
AddWriteStep(s) == sess[s].pc = "add_read" /\ sess'[s].pc # "add_read"

\* The day on which the step of session s read datetime.now()
DayOf(s) == IF sess'[s].pc = "idle" THEN last'.day ELSE sess'[s].a.day

\* The ISO date of a day of March 2026
MarchDate(day) == CASE day = 9 -> "2026-03-09" [] day = 10 -> "2026-03-10"

-----------------------------------------------------------------------------
(* C1 *)

\* C1: decide on a Request that the call itself reads as missing or as already
\* Approved or Rejected fails with InvalidTransitionError and writes neither
\* worksheet.
C1_DecideOnNonPendingFails ==
  [][\A s \in Sessions :
       (WritesLogStep(s) /\ ~ PendingAt(sess[s].df, sess[s].a.index))
         => /\ subs' = subs
            /\ timeline' = timeline
            /\ last'.raised = "InvalidTransitionError"]_vars

(* C2 *)

\* C2: of two decide calls that both read the same Request as Pending, the one
\* that writes second fails with InvalidTransitionError and leaves the Request
\* as the first call wrote it.
C2_SecondWriterFails ==
  [][\A s \in Sessions :
       LET i == sess[s].a.index IN
       (/\ WritesLogStep(s)
        /\ PendingAt(sess[s].df, i)
        /\ i + 1 \in DOMAIN subs
        /\ SameRequest(subs[i + 1], sess[s].df[i + 1])
        /\ Decided(subs[i + 1]))
         => /\ subs' = subs
            /\ last'.raised = "InvalidTransitionError"]_vars

(* C3 *)

\* C3: when an approving decide made from the decision form on a Pending
\* Request completes with the Timeline written, the Request selected is in the
\* store with status Approved and the event it names carries its proposed_date
\* and the status Rescheduled.
C3_ApprovedReschedules ==
  [][\A s \in Sessions :
       LET a == sess[s].a
           S == Stored(subs') IN
       (WritesTimelineStep(s) /\ a.op = "decision_form")
         => /\ a.index + 1 \in DOMAIN S
            /\ S[a.index + 1].target_event = a.event_name
            /\ S[a.index + 1].proposed_date = a.new_date_str
            /\ S[a.index + 1].status = "Approved"
            /\ \A k \in DOMAIN timeline' :
                 timeline'[k].event = a.event_name
                   => /\ timeline'[k].date = a.new_date_str
                      /\ timeline'[k].status = "Rescheduled"]_vars

(* C4 *)

\* C4: once a Request is Approved or Rejected, no step changes its status,
\* decision_reason or decision_date, and the Request stays in the store.
C4_DecidedNeverChanges ==
  [][\A i \in DOMAIN subs :
       Decided(subs[i])
         => /\ i \in DOMAIN subs'
            /\ subs'[i].status = subs[i].status
            /\ subs'[i].decision_reason = subs[i].decision_reason
            /\ subs'[i].decision_date = subs[i].decision_date]_vars

(* C5 *)

\* C5: a step changes the Timeline only if it is the Timeline write of an
\* approving decide, and then it changes only the date and status of the rows
\* whose event is the one the decide names; no row is added or removed.
C5_TimelineFrame ==
  [][timeline' # timeline
       => \E s \in Sessions :
            /\ WritesTimelineStep(s)
            /\ sess[s].a.status = "Approved"
            /\ DOMAIN timeline' = DOMAIN timeline
            /\ \A k \in DOMAIN timeline :
                 /\ timeline'[k].event = timeline[k].event
                 /\ timeline'[k].owner = timeline[k].owner
                 /\ timeline'[k] # timeline[k]
                      => timeline[k].event = sess[s].a.event_name]_vars

(* C6 *)

\* C6: in no state is a Request Approved, the only Approved one for its
\* target_event, while an event of that name in the Timeline lacks the
\* Request's proposed_date or the status Rescheduled.
C6_ApprovalAtomic ==
  \A i \in DOMAIN subs :
    (/\ subs[i].status = "Approved"
     /\ \A j \in DOMAIN subs \ {i} :
          ~ (subs[j].status = "Approved"
             /\ subs[j].target_event = subs[i].target_event))
      => \A k \in DOMAIN timeline :
           timeline[k].event = subs[i].target_event
             => /\ timeline[k].date = subs[i].proposed_date
                /\ timeline[k].status = "Rescheduled"

(* C7 *)

\* C7: create_request with a target_event that is no event of the Timeline
\* fails with ValidationError and leaves the Submissions worksheet as it was.
C7_UnknownTargetRejected ==
  [][\A s \in Sessions :
       (AddWriteStep(s) /\ ~ mask_any(timeline, sess[s].a.event_name))
         => /\ subs' = subs
            /\ last'.raised = "ValidationError"]_vars

(* C8 *)

\* C8: create_request with a target_event of the Timeline leaves every stored
\* Request as it was and makes list_pending the previous list with one entry
\* added last: Pending, no decision fields, the other fields as given.
C8_CreateAppendsPending ==
  [][\A s \in Sessions :
       LET a == sess[s].a
           new == [party |-> a.party, doc_type |-> "Extension Request",
                   summary |-> a.summary, proposed_date |-> a.new_date_str,
                   status |-> "Pending", target_event |-> a.event_name,
                   decision_reason |-> "", decision_date |-> ""] IN
       (AddWriteStep(s) /\ mask_any(timeline, a.event_name))
         => /\ Len(subs') = Len(subs) + 1
            /\ \A i \in DOMAIN subs : Stored(subs')[i] = Stored(subs)[i]
            /\ list_pending(Stored(subs')) =
                 Append(list_pending(Stored(subs)), new)]_vars

(* C9 *)

\* C9: no step removes a Request from the Submissions worksheet or replaces
\* it by another one: every row keeps its place and the fields it was filed with.
C9_NoRequestLost ==
  [][/\ Len(subs') >= Len(subs)
     /\ \A i \in DOMAIN subs : SameRequest(subs[i], subs'[i])]_vars

(* C10 *)

\* C10: an approving decide on a Request that the call read as Pending and
\* whose target_event is no event of the Timeline has recorded the decision,
\* leaves the Timeline as it was and signals DanglingReferenceError.
C10_DanglingSignalled ==
  [][\A s \in Sessions :
       LET a == sess[s].a IN
       (NoMatchStep(s) /\ a.op = "decision_form")
         => /\ timeline' = timeline
            /\ last'.raised = "DanglingReferenceError"]_vars

(* C11 *)

\* C11: decide is invoked only by a session whose role is arbitrator,
\* create_request only by one whose role is claimant or respondent, and so
\* every Request that was filed has party claimant or respondent.
C11_AccessPolicy ==
  /\ (last.op = "decision_form" => last.role = "arbitrator")
  /\ (last.op = "request_form" /\ last.msg = "Application filed."
        => last.role \in {"claimant", "respondent"})
  /\ \A i \in DOMAIN subs : subs[i].party \in {"claimant", "respondent", NaN}

(* C12 *)

\* C12: the Submissions write of a decide made from the decision form leaves
\* the Request selected in the store with the status chosen, exactly the
\* reasoning given and the date of the day of the call; a decide submitted
\* without reasoning writes neither worksheet.
C12_DecisionRecorded ==
  [][/\ \A s \in Sessions :
          LET a == sess[s].a
              S == Stored(subs') IN
          (WritesLogStep(s) /\ a.op = "decision_form")
            => /\ a.reason # ""
               /\ a.index + 1 \in DOMAIN S
               /\ S[a.index + 1].target_event = a.event_name
               /\ S[a.index + 1].proposed_date = a.new_date_str
               /\ S[a.index + 1].status = a.status
               /\ S[a.index + 1].decision_reason = a.reason
               /\ S[a.index + 1].decision_date = MarchDate(DayOf(s))
     /\ (last' # last /\ last'.msg = "Reasoning required for the record.")
          => /\ subs' = subs
             /\ timeline' = timeline]_vars

(* C13 *)

\* A session that is not logged in has no role
GateInv ==
  \A s \in Sessions :
    /\ logged_in[s] = PyFalse => user_role[s] = None
    /\ logged_in[s] # PyTrue => user_role[s] \in {Absent, None}

\* C13: a session that is not logged in has user_role None (or no such key);
\* user_role gets a role only by a login of that session whose username and
\* password are those of a row of Users, and it is that row's role; the
\* drafting page goes past its gate only for the role arbitrator and the
\* timeline page only for a role that is not None, so a session that is not
\* logged in is denied by both.
C13_SessionGate ==
  /\ GateInv
  /\ [][/\ GateInv'
        /\ \A s \in Sessions :
             (user_role'[s] \notin {Absent, None} /\ user_role'[s] # user_role[s])
               => /\ last'.op = "login"
                  /\ last'.sid = s
                  /\ \E i \in DOMAIN users :
                       /\ users[i].username = last'.username
                       /\ users[i].password = last'.password
                       /\ users[i].role = user_role'[s]
        /\ (last'.op \in {"drafting_page", "timeline_page"} /\ last' # last)
             => last'.role = user_role[last'.sid]
        /\ (last'.op = "drafting_page" /\ last'.msg = "ArbOS: PO1 Generator")
             => last'.role = "arbitrator"
        /\ (last'.op = "timeline_page" /\ last'.msg = "Case Management Console")
             => last'.role \notin {Absent, None}
        /\ (last'.op \in {"drafting_page", "timeline_page"}
            /\ logged_in'[last'.sid] # PyTrue)
             => last'.msg \in {"ACCESS DENIED: This tool is restricted to the Tribunal.",
                               "ACCESS DENIED: Please log in first."}]_vars

C13_Witness ==
  /\ last.op = "timeline_page"
  /\ last.sid = "p1"
  /\ last.msg = "ACCESS DENIED: Please log in first."
  /\ logged_in["p1"] = PyFalse
  /\ user_role["p1"] = None
  /\ user_name["p1"] = "Presiding Arbitrator"

====
